---- MODULE Spec2Model ----
(***************************************************************************)
(* Urbyn Waste Registry Transformer: the Streamlit front end (app.py) and  *)
(* the transformation engine (etl_processor.py).                           *)
(*                                                                         *)
(* Values.  A Python string is a sequence of symbols.  A symbol is a       *)
(* letter or an indivisible word of the bounded alphabet used by the       *)
(* inputs below; the alphabet is chosen so that no symbol occurs inside    *)
(* another one or across the boundary of two others, which makes sequence  *)
(* containment coincide with Python's substring test `a in b`.  A cell     *)
(* that is not a string is a tagged tuple: NaN (pandas' absent value),     *)
(* None (Python's None) or Num(n), a number counted in hundredths          *)
(* (Num(250) is 2.5).  Where Python has None in the place of a dict, a     *)
(* DataFrame or an object, the model has the record NoRecord.              *)
(***************************************************************************)
EXTENDS Integers, Sequences, FiniteSets, TLC

VARIABLES
    etl_file,        \* sidebar uploader "etl_file": None or a mapping workbook
    template_file,   \* sidebar uploader "template_file": None or a template workbook
    uploaded_files,  \* the multi-file uploader: a sequence of data files
    prestataire,     \* the selectbox: "Auto-detect" or a supported name
    processor,       \* the ETLProcessor built by the run (None before)
    ui,              \* what the run rendered below the Transform button
    rowlog,          \* history: one entry per _process_row call of the last process
    lists,           \* the list objects bound to self.warnings so far, and the current one
    returned         \* history: the dicts process returned on this engine

vars ==
    <<etl_file, template_file, uploaded_files, prestataire, processor, ui, rowlog,
      lists, returned>>

-----------------------------------------------------------------------------
(* Values *)

NaN == <<"<NaN>">>
None == <<"<None>">>
Num(n) == <<"<num>", n>>
NoRecord == [none |-> TRUE]

IsNum(v) == Len(v) = 2 /\ v[1] = "<num>"
IsStr(v) == v = <<>> \/ v[1] \notin {"<NaN>", "<None>", "<num>"}
\* pd.isna(v) for a scalar
IsNa(v) == v = NaN \/ v = None
\* Python truthiness of a cell
Truthy(v) ==
    IF IsNa(v) THEN v = NaN       \* bool(nan) is True, bool(None) is False
    ELSE IF IsNum(v) THEN v[2] # 0
    ELSE v # <<>>

\* str.lower(): the upper-case symbols of the alphabet and their lower case
LowerOf ==
    [c \in {"A", "B", "C", "R", "Veolia", "VEOLIA", "Suez", "TD", "Registre",
            "Elise", "Screlec", "Paprec", "Trackdechet", "Apeyron",
            "Les Alchimistes", "Lieu", "Matière",
            "Poids", "Code", "Matériel", "Masse", "Quantité", "Expéditeur",
            "Dé", "Papier", "Verre", "Bac", "Roulant", "660L", "Site", "Les",
            "Alchimiste", "Export", "Bois", "D", "Data", "Déchets", "Feuil1"} |->
        CASE c = "A" -> "a" [] c = "B" -> "b" [] c = "C" -> "c" [] c = "R" -> "r"
          [] c = "Veolia" -> "veolia" [] c = "VEOLIA" -> "veolia"
          [] c = "Suez" -> "suez" [] c = "TD" -> "td"
          [] c = "Registre" -> "registre" [] c = "Elise" -> "elise"
          [] c = "Screlec" -> "screlec" [] c = "Paprec" -> "paprec"
          [] c = "Trackdechet" -> "trackdechet" [] c = "Lieu" -> "lieu"
          [] c = "Apeyron" -> "apeyron" [] c = "Les Alchimistes" -> "les alchimistes"
          [] c = "Matière" -> "matière" [] c = "Poids" -> "poids"
          [] c = "Code" -> "code" [] c = "Matériel" -> "matériel"
          [] c = "Masse" -> "masse" [] c = "Quantité" -> "quantité"
          [] c = "Expéditeur" -> "expéditeur" [] c = "Dé" -> "dé"
          [] c = "Papier" -> "papier" [] c = "Verre" -> "verre"
          [] c = "Bac" -> "bac" [] c = "Roulant" -> "roulant"
          [] c = "660L" -> "660l" [] c = "Site" -> "site" [] c = "Les" -> "les"
          [] c = "Data" -> "data" [] c = "Déchets" -> "déchets"
          [] c = "Feuil1" -> "feuil1"
          [] c = "Alchimiste" -> "alchimiste" [] c = "Export" -> "export"
          [] c = "Bois" -> "bois" [] c = "D" -> "d"]

Lower(s) == [i \in 1..Len(s) |-> IF s[i] \in DOMAIN LowerOf THEN LowerOf[s[i]] ELSE s[i]]

RECURSIVE LStrip(_)
LStrip(s) == IF s # <<>> /\ Head(s) = " " THEN LStrip(Tail(s)) ELSE s

RECURSIVE RStrip(_)
RStrip(s) == IF s # <<>> /\ s[Len(s)] = " " THEN RStrip(SubSeq(s, 1, Len(s) - 1)) ELSE s

\* str.strip()
Strip(s) == RStrip(LStrip(s))

\* Python `needle in hay` on strings (the empty string is in every string)
Contains(hay, needle) ==
    \E i \in 1..(Len(hay) - Len(needle) + 1) :
        SubSeq(hay, i, i + Len(needle) - 1) = needle

\* str(v) of a cell that is a string or absent
PyStr(v) ==
    IF v = NaN THEN <<"nan">>
    ELSE IF v = None THEN <<"None">>
    ELSE v

\* A Python dict is the sequence of its <<key, value>> items in insertion order.
DictHas(d, k) == \E i \in 1..Len(d) : d[i][1] = k
DictGet(d, k, default) ==
    IF DictHas(d, k) THEN d[CHOOSE i \in 1..Len(d) : d[i][1] = k][2] ELSE default
\* d[k] = v: a key already present keeps its place and takes the new value
DictSet(d, k, v) ==
    IF DictHas(d, k)
    THEN [i \in 1..Len(d) |-> IF d[i][1] = k THEN <<k, v>> ELSE d[i]]
    ELSE Append(d, <<k, v>>)

\* A pandas row (a Series): row.get(col) is None when the frame has no such column
RowGet(row, col) == IF col \in DOMAIN row THEN row[col] ELSE None

-----------------------------------------------------------------------------
(* Configuration: etl_processor.py, lines 10-161 *)

\* a provider name is a string of one symbol
SUPPORTED_PRESTATAIRES ==
    << <<"Veolia">>, <<"Suez">>, <<"Apeyron">>, <<"Les Alchimistes">>, <<"Paprec">>,
       <<"Elise">>, <<"Screlec">>, <<"Trackdechet">> >>

\* config["columns"] of each provider: the canonical keys, in the order of the
\* source, each with its candidate header substrings
VeoliaColumns ==
    <<
        <<"date", <<<<"date", " ", "de", " ", "réalisation">>, <<"date">>>>>>,
        <<"site", <<<<"lieu", " ", "de", " ", "collecte">>, <<"site">>, <<"adresse">>, <<"lieu">>>>>>,
        <<"waste", <<<<"matière">>, <<"déchet">>, <<"type", " ", "de", " ", "déchet">>>>>>,
        <<"weight", <<<<"poids">>, <<"masse">>, <<"quantité">>, <<"kg">>, <<"tonnage">>>>>>,
        <<"treatment_code", <<<<"code", " ", "de", " ", "traitement">>, <<"code", " ", "traitement">>, <<"code", " ", "r/d">>>>>>,
        <<"waste_code", <<<<"cod", " ", "ced">>, <<"code", " ", "déchet">>>>>>,
        <<"container", <<<<"matériel">>, <<"contenant">>, <<"bac">>>>>>,
        <<"quantity", <<<<"quantité", " ", "facturée">>, <<"nom", "bre">>, <<"nb">>>>>>,
        <<"exutoire", <<<<"exutoire">>, <<"destination">>, <<"installation">>>>>>,
        <<"transporter", <<<<"transporteur">>>>>>,
        <<"bsd", <<<<"n°", " ", "de", " ", "bon", " ", "d'enlèvement">>, <<"bsd">>, <<"bordereau">>>>>>
    >>

SuezColumns ==
    <<
        <<"date", <<<<"date", " ", "de", " ", "l'expédition">>, <<"date">>, <<"date", " ", "collecte">>>>>>,
        <<"site", <<<<"nom", " ", "du", " ", "site">>, <<"site">>, <<"adresse">>>>>>,
        <<"waste", <<<<"matière">>, <<"déchet">>, <<"type">>>>>>,
        <<"weight", <<<<"qté", " ", "pesée">>, <<"poids">>, <<"masse">>, <<"quantité", " ", "pesée">>>>>>,
        <<"treatment_code", <<<<"code", " ", "r/d">>, <<"code", " ", "de", " ", "traitement">>>>>>,
        <<"treatment_name", <<<<"libellé", " ", "r/d">>, <<"traitement">>>>>>,
        <<"waste_code", <<<<"code", " ", "déchet">>, <<"code", " ", "ced">>>>>>,
        <<"container_qty", <<<<"qté", " ", "de", " ", "matériel">>, <<"nom", "bre">>>>>>,
        <<"container_vol", <<<<"volume", " ", "du", " ", "matériel">>, <<"volume">>>>>>,
        <<"exutoire", <<<<"nom", " ", "de", " ", "l'installation">>, <<"exutoire">>>>>>,
        <<"transporter", <<<<"nom.1">>, <<"transporteur">>>>>>,
        <<"bsd", <<<<"n°", " ", "du", " ", "bsd">>, <<"bsd">>>>>>
    >>

ApeyronColumns ==
    <<
        <<"date", <<<<"date">>, <<"date", " ", "collecte">>, <<"jour">>>>>>,
        <<"site", <<<<"nom", " ", "etablissement">>, <<"etablissement">>, <<"site">>, <<"client">>>>>>,
        <<"weight", <<<<"poids", " ", "total", " ", "kg">>, <<"poids">>, <<"kg">>, <<"masse">>>>>>,
        <<"container_code", <<<<"volume", " ", "bac">>, <<"bac">>, <<"contenant">>>>>>,
        <<"container_qty", <<<<"nb", " ", "bac">>, <<"nom", "bre", " ", "bac">>, <<"nb">>>>>>
    >>

LesAlchimistesColumns ==
    <<
        <<"date", <<<<"date">>, <<"date", " ", "collecte">>, <<"jour">>>>>>,
        <<"site", <<<<"site">>, <<"client">>, <<"établissement">>, <<"etablissement">>, <<"nom">>>>>>,
        <<"waste", <<<<"matière">>, <<"déchet">>, <<"type">>, <<"flux">>>>>>,
        <<"weight", <<<<"poids">>, <<"kg">>, <<"masse">>, <<"quantité">>, <<"collecte">>>>>>,
        <<"treatment_code", <<<<"code">>, <<"traitement">>, <<"r/d">>>>>>
    >>

PaprecColumns ==
    <<
        <<"site_id", <<<<"numéro", " ", "contrat">>, <<"contrat">>, <<"numero", " ", "contrat">>>>>>,
        <<"date", <<<<"date", " ", "prestation">>, <<"date">>>>>>,
        <<"waste", <<<<"libellé", " ", "qualité">>, <<"qualité">>, <<"matière">>>>>>,
        <<"container", <<<<"libellé", " ", "matériel">>, <<"matériel">>>>>>,
        <<"quantity", <<<<"quantité">>, <<"nom", "bre">>>>>>,
        <<"weight", <<<<"poids">>, <<"masse">>>>>>,
        <<"bsd", <<<<"numerobe">>, <<"n°", " ", "be">>>>>>,
        <<"month", <<<<"mois">>>>>>,
        <<"year", <<<<"année">>>>>>
    >>

EliseColumns ==
    <<
        <<"site_name", <<<<"nom">>>>>>,
        <<"date", <<<<"date", " ", "collecte">>, <<"date">>>>>>,
        <<"waste", <<<<"gisement">>, <<"matière">>>>>>,
        <<"waste_code", <<<<"code", " ", "nomenclature">>>>>>,
        <<"weight", <<<<"quantité">>, <<"kg">>>>>>,
        <<"treatment_code_intermediate", <<<<"code", " ", "d/r">>>>>>,
        <<"exutoire", <<<<"installation">>>>>>
    >>

ScrelecColumns ==
    <<
        <<"bsd", <<<<"n°", " ", "de", " ", "bordereau">>>>>>,
        <<"date", <<<<"date", " ", "de", " ", "réalisation">>, <<"date", " ", "d'expédition">>>>>>,
        <<"waste_name", <<<<"dé", "nom", "ination", " ", "usuelle">>>>>>,
        <<"waste_code", <<<<"code", " ", "du", " ", "déchet">>>>>>,
        <<"weight", <<<<"quantité", " ", "réceptionnée">>, <<"quantité", " ", "acceptée">>>>>>,
        <<"site_name", <<<<"expéditeur", " ", "nom", " ", "usuel">>>>>>,
        <<"treatment_code", <<<<"code", " ", "opération", " ", "réalisé">>>>>>,
        <<"transporter", <<<<"transporteur", " ", "raison", " ", "sociale">>>>>>,
        <<"destination", <<<<"destination", " ", "raison", " ", "sociale">>>>>>
    >>

TrackdechetColumns ==
    <<
        <<"bsd", <<<<"n°", " ", "de", " ", "bordereau">>>>>>,
        <<"date", <<<<"date", " ", "de", " ", "réalisation">>, <<"date", " ", "d'expédition">>>>>>,
        <<"waste_name", <<<<"dé", "nom", "ination", " ", "usuelle">>>>>>,
        <<"waste_code", <<<<"code", " ", "du", " ", "déchet">>>>>>,
        <<"weight", <<<<"quantité", " ", "réceptionnée">>, <<"quantité", " ", "acceptée">>>>>>,
        <<"site_name", <<<<"expéditeur", " ", "nom", " ", "usuel">>>>>>,
        <<"treatment_code", <<<<"code", " ", "opération", " ", "réalisé">>>>>>,
        <<"transporter", <<<<"transporteur", " ", "raison", " ", "sociale">>>>>>,
        <<"destination", <<<<"destination", " ", "raison", " ", "sociale">>>>>>
    >>

\* pattern: the alternatives of the regular expression (only "|" is special in
\* the patterns of the registry)
PRESTATAIRE_CONFIG ==
    [name \in {SUPPORTED_PRESTATAIRES[i] : i \in 1..Len(SUPPORTED_PRESTATAIRES)} |->
        CASE name = <<"Veolia">> ->
               [pattern |-> <<(<<"veolia">>)>>, weight_unit |-> "tonnes",
                bsdd_format |-> FALSE, columns |-> VeoliaColumns]
          [] name = <<"Suez">> ->
               [pattern |-> <<(<<"suez">>)>>, weight_unit |-> "tonnes",
                bsdd_format |-> FALSE, columns |-> SuezColumns]
          [] name = <<"Apeyron">> ->
               [pattern |-> <<(<<"apeyron">>)>>, weight_unit |-> "kg",
                bsdd_format |-> FALSE, columns |-> ApeyronColumns]
          [] name = <<"Les Alchimistes">> ->
               [pattern |-> <<(<<"alchimiste">>)>>, weight_unit |-> "kg",
                bsdd_format |-> FALSE, columns |-> LesAlchimistesColumns]
          [] name = <<"Paprec">> ->
               [pattern |-> <<(<<"paprec">>)>>, weight_unit |-> "kg",
                bsdd_format |-> FALSE, columns |-> PaprecColumns]
          [] name = <<"Elise">> ->
               [pattern |-> <<(<<"elise">>)>>, weight_unit |-> "kg",
                bsdd_format |-> FALSE, columns |-> EliseColumns]
          [] name = <<"Screlec">> ->
               [pattern |-> <<(<<"screlec">>)>>, weight_unit |-> "tonnes",
                bsdd_format |-> TRUE, columns |-> ScrelecColumns]
          [] name = <<"Trackdechet">> ->
               [pattern |-> <<(<<"trackdechet">>), <<"td", "-", "registre">>>>,
                weight_unit |-> "tonnes", bsdd_format |-> TRUE,
                columns |-> TrackdechetColumns]]

\* PAPREC_CONTAINER_VOLUMES and PAPREC_CONTAINER_TYPES, keyed by descriptor
PAPREC_CONTAINER_VOLUMES ==
    << <<(<<"bac", " ", "roulant", " ", "660l">>), 660>>,
       <<(<<"bac", " ", "roulant", " ", "340l">>), 340>>,
       <<(<<"bac", " ", "roulant", " ", "770l">>), 770>>,
       <<(<<"bac", " ", "roulant", " ", "240l">>), 240>>,
       <<(<<"bac", " ", "roulant", " ", "120l">>), 120>>,
       <<(<<"caisse", " ", "palette", " ", "600l">>), 600>>,
       <<(<<"palette">>), 1000>>, <<(<<"balle">>), 1000>>,
       <<(<<"box">>), 1000>>, <<(<<"sac">>), 110>> >>

PAPREC_CONTAINER_TYPES ==
    << <<(<<"bac", " ", "roulant", " ", "660l">>), "Bac 4 roues - 660 L">>,
       <<(<<"bac", " ", "roulant", " ", "340l">>), "Bac 2 roues - 340 L">>,
       <<(<<"bac", " ", "roulant", " ", "770l">>), "Bac 4 roues - 770 L">>,
       <<(<<"bac", " ", "roulant", " ", "240l">>), "Bac 2 roues - 240 L">>,
       <<(<<"bac", " ", "roulant", " ", "120l">>), "Bac 2 roues - 120 L">>,
       <<(<<"caisse", " ", "palette", " ", "600l">>), "Caisse Palette - 600 L">>,
       <<(<<"palette">>), "Palette - 1 m3">>, <<(<<"balle">>), "Balle - 1 m3">>,
       <<(<<"box">>), "Box - 1 m3">>, <<(<<"sac">>), "Sac - 110 L">>,
       <<(<<"vrac">>), "Equipement inconnu">> >>

-----------------------------------------------------------------------------
(* The mapping workbook and the template.                                  *)
(* A worksheet is [columns, rows]: the set of its column names and its     *)
(* rows, each a function from the column names to cells.  A workbook is a  *)
(* function from sheet names to worksheets.  A template workbook is        *)
(* [columns |-> the header cells of its row 9, in order].                  *)

FORMULE == "Nom prestataire (FORMULE)"
CONCAT_COL == "Concatener déchet & code de traitement prestataire"

\* _load_etl_mappings, the loop over the Paramètres sheet:
\* dechet_to_agrege[str(Name).strip().lower()] = str(Category).strip()
RECURSIVE LoadAgrege(_, _, _)
LoadAgrege(rows, i, d) ==
    IF i > Len(rows) THEN d
    ELSE LET row == rows[i] IN
         IF IsNa(row["Category"]) \/ IsNa(row["Name"])      \* .dropna()
         THEN LoadAgrege(rows, i + 1, d)
         ELSE LoadAgrege(rows, i + 1,
                         DictSet(d, Lower(Strip(PyStr(row["Name"]))),
                                 Strip(PyStr(row["Category"]))))

\* _load_etl_mappings, the loop over the Traitement générique sheet
RECURSIVE LoadTraitement(_, _, _)
LoadTraitement(rows, i, d) ==
    IF i > Len(rows) THEN d
    ELSE LET row == rows[i]
             cell == IF CONCAT_COL \in DOMAIN row THEN row[CONCAT_COL] ELSE <<>>
             key == Strip(PyStr(cell))
         IN IF key = <<>>
            THEN LoadTraitement(rows, i + 1, d)
            ELSE LoadTraitement(rows, i + 1,
                     DictSet(d, key,
                             [code |-> RowGet(row, "Code traitement retraité"),
                              traitement |-> RowGet(row, "Traitement")]))

\* ETLProcessor.__init__ with _load_etl_mappings: the engine, or the fault
\* that construction raises (a missing sheet, a missing Paramètres column)
NewProcessor(etl, template) ==
    IF \E sh \in {"Déchet", "Paramètres", "Traitement générique", "Site"} :
           sh \notin DOMAIN etl
    THEN [fault |-> "Worksheet not found"]
    ELSE IF ~({"Category", "Name"} \subseteq etl["Paramètres"].columns)
    THEN [fault |-> "KeyError: Category, Name"]
    ELSE [fault |-> "",
          warnings |-> <<>>,
          template_columns |-> template.columns,
          dechet_df |-> etl["Déchet"],
          dechet_to_agrege |-> LoadAgrege(etl["Paramètres"].rows, 1, <<>>),
          traitement_lookup |-> LoadTraitement(etl["Traitement générique"].rows, 1, <<>>),
          site_df |-> etl["Site"]]

-----------------------------------------------------------------------------
(* The engine's helpers *)

\* a search that stops at the first "|" of the pattern
RegexSearchFirstAlternative(pattern, s) == Contains(s, pattern[1])

\* re.search(pattern, s) for a pattern given by its alternatives
RegexSearch(pattern, s) == \E k \in 1..Len(pattern) : Contains(s, pattern[k])

RECURSIVE DetectFrom(_, _)
DetectFrom(i, filename_lower) ==
    IF i > Len(SUPPORTED_PRESTATAIRES) THEN None
    ELSE IF RegexSearch(PRESTATAIRE_CONFIG[SUPPORTED_PRESTATAIRES[i]].pattern,
                        filename_lower)
    THEN SUPPORTED_PRESTATAIRES[i]
    ELSE DetectFrom(i + 1, filename_lower)

\* ETLProcessor.detect_prestataire
detect_prestataire(filename) == DetectFrom(1, Lower(filename))

\* df[df[FORMULE].str.contains(pattern, case=False, na=False)]
FilterRows(rows, pattern) ==
    SelectSeq(rows, LAMBDA row :
        ~IsNa(row[FORMULE]) /\ RegexSearch(pattern, Lower(row[FORMULE])))

\* the loop of _get_dechet_mapping keeping the first default it meets
RECURSIVE DechetLoopFirstDefault(_, _, _, _)
DechetLoopFirstDefault(rows, i, lookup, default) ==
    IF i > Len(rows) THEN [lookup |-> lookup, default |-> default]
    ELSE LET prest == RowGet(rows[i], "Nom des déchets prestataire")
             urbyn == RowGet(rows[i], "Nom des déchets Urbyn")
         IN IF IsNa(prest)
            THEN DechetLoopFirstDefault(rows, i + 1, lookup,
                     IF ~IsNa(urbyn) /\ default = None THEN urbyn ELSE default)
            ELSE IF ~IsNa(urbyn)
            THEN DechetLoopFirstDefault(rows, i + 1,
                     DictSet(lookup, Lower(Strip(PyStr(prest))), urbyn), default)
            ELSE DechetLoopFirstDefault(rows, i + 1, lookup, default)

\* the loop of _get_dechet_mapping over the filtered rows
RECURSIVE DechetLoop(_, _, _, _)
DechetLoop(rows, i, lookup, default) ==
    IF i > Len(rows) THEN [lookup |-> lookup, default |-> default]
    ELSE LET prest == RowGet(rows[i], "Nom des déchets prestataire")
             urbyn == RowGet(rows[i], "Nom des déchets Urbyn")
         IN IF IsNa(prest)
            THEN DechetLoop(rows, i + 1, lookup,
                            IF ~IsNa(urbyn) THEN urbyn ELSE default)
            ELSE IF ~IsNa(urbyn)
            THEN DechetLoop(rows, i + 1,
                            DictSet(lookup, Lower(Strip(PyStr(prest))), urbyn), default)
            ELSE DechetLoop(rows, i + 1, lookup, default)

\* ETLProcessor._get_dechet_mapping (the sheet has the FORMULE column)
GetDechetMapping(self, prestataire_pattern) ==
    DechetLoop(FilterRows(self.dechet_df.rows, prestataire_pattern), 1, <<>>, None)

RECURSIVE SiteLoop(_, _, _)
SiteLoop(rows, i, lookup) ==
    IF i > Len(rows) THEN lookup
    ELSE LET site_prest == RowGet(rows[i], "Nom site prestataire") IN
         IF ~IsNa(site_prest)
         THEN SiteLoop(rows, i + 1,
                  DictSet(lookup, Lower(Strip(PyStr(site_prest))),
                          [nom_site |-> RowGet(rows[i], "Nom site Urbyn"),
                           code_prestation |-> RowGet(rows[i], "Code de la prestation"),
                           prestataire |-> RowGet(rows[i], FORMULE)]))
         ELSE SiteLoop(rows, i + 1, lookup)

\* ETLProcessor._get_site_mapping (the sheet has the FORMULE column)
GetSiteMapping(self, prestataire_pattern) ==
    SiteLoop(FilterRows(self.site_df.rows, prestataire_pattern), 1, <<>>)

RECURSIVE FindIn(_, _, _)
FindIn(columns, j, name) ==
    IF j > Len(columns) THEN None
    ELSE IF Contains(Lower(PyStr(columns[j])), Lower(name)) THEN columns[j]
    ELSE FindIn(columns, j + 1, name)

RECURSIVE FindColumnFrom(_, _, _)
FindColumnFrom(columns, possible_names, i) ==
    IF i > Len(possible_names) THEN None
    ELSE LET col == FindIn(columns, 1, possible_names[i]) IN
         IF col # None THEN col ELSE FindColumnFrom(columns, possible_names, i + 1)

\* ETLProcessor._find_column, on the columns of the frame
FindColumn(columns, possible_names) == FindColumnFrom(columns, possible_names, 1)

\* ETLProcessor._safe_get
SafeGet(row, column, default) ==
    IF column = None THEN default
    ELSE LET value == RowGet(row, column) IN
         IF IsNa(value) THEN default ELSE value

\* ETLProcessor._extract_code_site: nom_str.split(' - ')[0] if ' - ' in nom_str
ExtractCodeSite(nom_site) ==
    IF IsNa(nom_site) THEN None
    ELSE LET nom_str == PyStr(nom_site)
             sep == <<" ", "-", " ">>
         IN IF Contains(nom_str, sep)
            THEN LET k == CHOOSE i \in 1..Len(nom_str) :
                              /\ SubSeq(nom_str, i, i + 2) = sep
                              /\ \A j \in 1..(i - 1) : SubSeq(nom_str, j, j + 2) # sep
                 IN SubSeq(nom_str, 1, k - 1)
            ELSE None

\* ETLProcessor._map_dechet
MapDechet(dechet_prest, lookup, default) ==
    IF IsNa(dechet_prest) \/ Strip(PyStr(dechet_prest)) = <<>> THEN default
    ELSE DictGet(lookup, Lower(Strip(PyStr(dechet_prest))), default)

\* ETLProcessor._map_agrege
MapAgrege(self, dechet_fin) ==
    IF IsNa(dechet_fin) THEN None
    ELSE DictGet(self.dechet_to_agrege, Lower(Strip(PyStr(dechet_fin))), None)

\* ETLProcessor._map_traitement: the pair (code, traitement)
MapTraitement(self, agrege, code) ==
    IF IsNa(agrege) THEN <<None, None>>
    ELSE LET key == agrege \o Strip(PyStr(code)) IN
         IF ~IsNa(code) /\ Strip(PyStr(code)) # <<>> /\ DictHas(self.traitement_lookup, key)
         THEN LET r == DictGet(self.traitement_lookup, key, NoRecord)
              IN <<r.code, r.traitement>>
         ELSE IF DictHas(self.traitement_lookup, agrege)
         THEN LET r == DictGet(self.traitement_lookup, agrege, NoRecord)
              IN <<r.code, r.traitement>>
         ELSE <<None, None>>

RECURSIVE PartialMatch(_, _, _)
PartialMatch(site_lookup, i, key) ==
    IF i > Len(site_lookup) THEN NoRecord
    ELSE IF Contains(site_lookup[i][1], key) \/ Contains(key, site_lookup[i][1])
    THEN site_lookup[i][2]
    ELSE PartialMatch(site_lookup, i + 1, key)

\* _map_site that takes an empty key for no match
MapSiteEmptyUnmatched(site_name, site_lookup) ==
    IF IsNa(site_name) \/ Strip(PyStr(site_name)) = <<>> THEN NoRecord
    ELSE LET key == Lower(Strip(PyStr(site_name))) IN
         IF DictHas(site_lookup, key) THEN DictGet(site_lookup, key, NoRecord)
         ELSE PartialMatch(site_lookup, 1, key)

\* _map_site without its exact match
MapSitePartialOnly(site_name, site_lookup) ==
    IF IsNa(site_name) THEN NoRecord
    ELSE PartialMatch(site_lookup, 1, Lower(Strip(PyStr(site_name))))

\* ETLProcessor._map_site
MapSite(site_name, site_lookup) ==
    IF IsNa(site_name) THEN NoRecord
    ELSE LET key == Lower(Strip(PyStr(site_name))) IN
         IF DictHas(site_lookup, key) THEN DictGet(site_lookup, key, NoRecord)
         ELSE PartialMatch(site_lookup, 1, key)

-----------------------------------------------------------------------------
(* Row processing *)

\* float(weight) of a truthy cell: a number, or a string of decimal digits
\* with at most one ".", surrounded by blanks; anything else raises ValueError
DigitVal ==
    [c \in {"0", "1", "2", "3", "4", "5", "6", "7", "8", "9"} |->
        CASE c = "0" -> 0 [] c = "1" -> 1 [] c = "2" -> 2 [] c = "3" -> 3
          [] c = "4" -> 4 [] c = "5" -> 5 [] c = "6" -> 6 [] c = "7" -> 7
          [] c = "8" -> 8 [] c = "9" -> 9]

RECURSIVE DigitsValue(_, _)
DigitsValue(s, acc) ==
    IF s = <<>> THEN acc ELSE DigitsValue(Tail(s), 10 * acc + DigitVal[Head(s)])

IsDigits(s) == \A i \in 1..Len(s) : s[i] \in DOMAIN DigitVal

\* [fault, value]: value in hundredths
PyFloat(v) ==
    IF IsNum(v) THEN [fault |-> "", value |-> v[2]]
    ELSE LET t == Strip(v)
             dots == {i \in 1..Len(t) : t[i] = "."}
         IN IF t # <<>> /\ dots = {} /\ IsDigits(t)
            THEN [fault |-> "", value |-> 100 * DigitsValue(t, 0)]
            ELSE IF Cardinality(dots) = 1
            THEN LET d == CHOOSE i \in dots : TRUE
                     ip == SubSeq(t, 1, d - 1)
                     fp == SubSeq(t, d + 1, Len(t))
                 IN IF IsDigits(ip) /\ IsDigits(fp) /\ Len(ip) + Len(fp) > 0 /\ Len(fp) <= 2
                    THEN [fault |-> "",
                          value |-> 100 * DigitsValue(ip, 0)
                                    + (IF Len(fp) = 1 THEN 10 * DigitsValue(fp, 0)
                                       ELSE DigitsValue(fp, 0))]
                    ELSE [fault |-> "could not convert string to float", value |-> 0]
            ELSE [fault |-> "could not convert string to float", value |-> 0]

\* cols.get(key): the column discovered for a canonical key, None without one
ColsGet(cols, key) == DictGet(cols, key, None)

\* Python's `a or b`
PyOr(a, b) == IF Truthy(a) THEN a ELSE b

\* The dict _process_row returns, in the order of its keys
OutputFields ==
    <<"Libellé", "Groupe", "Code site", "Nom du site", "Nom du client",
      "Type de porteur", "Commentaire mouvement", "Code de la prestation",
      "Prestataire", "Groupe de Prestataire", "Type de prestataire",
      "Périodicité", "Date début registre", "Date fin registre",
      "Code déchet prestataire", "Déchet fin", "Déchets agrégé",
      "Déchets prestataire", "Masse totale (kg)", "Nombre de contenants",
      "Volume contenant (L)", "Type de contenant", "Volume total (L)",
      "Nature de quantités collectées", "Qualité quantités",
      "Précision estimations des quantités", "Traitement",
      "Traitement prestataire", "Code traitement",
      "Code traitement prestataire", "Qualité du Traitement",
      "N° de BSD/BSDD", "N° de recépissé", "Transporteur",
      "Transporteur prestataire", "Plaque d'immatriculation",
      "Exutoire intermédiaire", "Exutoire intermédiaire prestataire",
      "Qualité de l'exutoire intermédiaire", "Exutoire final",
      "Exutoire final prestataire", "Qualité de l'exutoire final",
      "Période de clôture", "Statut du mouvement", "Commentaire">>

SiteInconnu ==
    [nom_site |-> <<"Site inconnu">>, code_prestation |-> None, prestataire |-> None]

\* f"No site mapping for: '{site_name}'"
NoSiteWarning(site_name) == <<"No site mapping for: '", site_name, "'">>

\* ETLProcessor._process_row.  `warnings` is self.warnings at the call.
\* Returns [fault, warnings, ret, site_name]: the fault raised ("" for none),
\* self.warnings afterwards, the returned dict (NoRecord for None), and the
\* site value the call read (its local site_name).
ProcessRow(self, warnings, row, cols, prest, config, dechet_lookup, default_dechet, site_lookup) ==
    LET \* Get site
        site_col == PyOr(PyOr(ColsGet(cols, "site"), ColsGet(cols, "site_name")),
                         ColsGet(cols, "site_id"))
        site_name == SafeGet(row, site_col, <<>>)
        mapped == MapSite(site_name, site_lookup)
        warnings1 == IF mapped = NoRecord
                     THEN Append(warnings, NoSiteWarning(site_name))
                     ELSE warnings
        site_info == IF mapped = NoRecord THEN SiteInconnu ELSE mapped
        \* Get waste
        waste_col == PyOr(ColsGet(cols, "waste"), ColsGet(cols, "waste_name"))
        dechets_prest == SafeGet(row, waste_col, <<>>)
        dechet_fin == MapDechet(dechets_prest, dechet_lookup, default_dechet)
        dechets_agrege == MapAgrege(self, dechet_fin)
        \* Get treatment
        code_col == PyOr(ColsGet(cols, "treatment_code"), ColsGet(cols, "treatment_code_done"))
        code_prest == SafeGet(row, code_col, <<>>)
        tr == MapTraitement(self, dechets_agrege, code_prest)
        code_final == IF tr[1] = None THEN code_prest ELSE tr[1]
        traitement == tr[2]
        \* Get weight
        weight_col == ColsGet(cols, "weight")
        weight == SafeGet(row, weight_col, Num(0))
        conv == IF Truthy(weight) THEN PyFloat(weight) ELSE [fault |-> "", value |-> 0]
        masse == IF Truthy(weight)
                 THEN (IF config.weight_unit = "tonnes"
                       THEN Num(conv.value * 1000) ELSE Num(conv.value))
                 ELSE Num(0)
        \* Get date and other fields
        date_val == SafeGet(row, ColsGet(cols, "date"), None)
        bsd == SafeGet(row, ColsGet(cols, "bsd"), None)
        waste_code == SafeGet(row, ColsGet(cols, "waste_code"), None)
        transporter == SafeGet(row, ColsGet(cols, "transporter"), None)
        exutoire == SafeGet(row, PyOr(ColsGet(cols, "exutoire"), ColsGet(cols, "destination")),
                            None)
        \* Container info (for Paprec)
        container == SafeGet(row, ColsGet(cols, "container"), <<>>)
        quantity == SafeGet(row, PyOr(ColsGet(cols, "quantity"), ColsGet(cols, "container_qty")),
                            Num(100))
        paprec == Truthy(container) /\ prest = <<"Paprec">>
        container_lower == Strip(Lower(container))
        volume_contenant ==
            IF paprec /\ DictHas(PAPREC_CONTAINER_VOLUMES, container_lower)
            THEN Num(100 * DictGet(PAPREC_CONTAINER_VOLUMES, container_lower, 0))
            ELSE None
        type_contenant ==
            IF paprec
            THEN <<DictGet(PAPREC_CONTAINER_TYPES, container_lower, "Equipement inconnu")>>
            ELSE None
        volume_total ==
            IF Truthy(volume_contenant) /\ Truthy(quantity)
            THEN (IF IsNum(quantity) THEN Num((volume_contenant[2] * quantity[2]) \div 100)
                  ELSE <<"<str * int>">>)
            ELSE None
        \* Determine prestataire name
        prestataire_name == PyOr(PyOr(site_info.prestataire, transporter), prest)
        out == [f \in {OutputFields[i] : i \in 1..Len(OutputFields)} |->
            CASE f = "Groupe" -> <<"Capgemini">>
              [] f = "Code site" -> ExtractCodeSite(site_info.nom_site)
              [] f = "Nom du site" -> site_info.nom_site
              [] f = "Nom du client" -> <<"CAPGEMINI TECHNOLOGY SERVICES">>
              [] f = "Type de porteur" -> <<"FM">>
              [] f = "Code de la prestation" -> site_info.code_prestation
              [] f = "Prestataire" -> prestataire_name
              [] f = "Groupe de Prestataire" -> prest
              [] f = "Type de prestataire" -> <<"Privé">>
              [] f = "Périodicité" -> <<"Jour">>
              [] f = "Date début registre" -> date_val
              [] f = "Date fin registre" -> date_val
              [] f = "Code déchet prestataire" -> waste_code
              [] f = "Déchet fin" -> dechet_fin
              [] f = "Déchets agrégé" -> dechets_agrege
              [] f = "Déchets prestataire" ->
                     (IF Truthy(dechets_prest) THEN dechets_prest ELSE dechet_fin)
              [] f = "Masse totale (kg)" -> masse
              [] f = "Nombre de contenants" -> quantity
              [] f = "Volume contenant (L)" -> volume_contenant
              [] f = "Type de contenant" -> type_contenant
              [] f = "Volume total (L)" -> volume_total
              [] f = "Nature de quantités collectées" -> <<"Masse">>
              [] f = "Qualité quantités" -> <<"Document prestataire">>
              [] f = "Traitement" -> traitement
              [] f = "Code traitement" -> code_final
              [] f = "Code traitement prestataire" -> code_prest
              [] f = "Qualité du Traitement" -> <<"Document prestataire">>
              [] f = "N° de BSD/BSDD" -> bsd
              [] f = "Transporteur" -> transporter
              [] f = "Transporteur prestataire" -> transporter
              [] f = "Exutoire final" -> exutoire
              [] f = "Exutoire final prestataire" -> exutoire
              [] f = "Qualité de l'exutoire final" -> <<"Document prestataire">>
              [] f = "Statut du mouvement" -> <<"Réalisée">>
              [] OTHER -> None]
    IN  \* Skip if no weight (for BSDD formats)
        IF config.bsdd_format /\ (IsNa(weight) \/ weight = Num(0))
        THEN [fault |-> "", warnings |-> warnings1, ret |-> NoRecord,
              site_name |-> site_name]
        ELSE IF conv.fault # ""
        THEN [fault |-> conv.fault, warnings |-> warnings1, ret |-> NoRecord,
              site_name |-> site_name]
        ELSE IF paprec /\ ~IsStr(container)
        THEN [fault |-> "object has no attribute 'lower'", warnings |-> warnings1,
              ret |-> NoRecord, site_name |-> site_name]
        ELSE [fault |-> "", warnings |-> warnings1, ret |-> out,
              site_name |-> site_name]

-----------------------------------------------------------------------------
(* process *)
(* A data file is [name, readable, sheets]: a workbook pandas can read or   *)
(* not, with its worksheets in order, each [name, columns, rows]: the      *)
(* frame read_excel returns for the sheet (its columns and its rows, each  *)
(* a function from the columns to cells).  A csv file is the one frame     *)
(* read_csv returns for it.                                                *)

SOURCE_FILE == <<"_source_file">>

\* config['sheet_patterns'], for the providers whose configuration has the key
sheet_patterns == (<<"Suez">> :> << <<"registre">>, <<"déchets">>, <<"data">> >>)

\* sheet_name: 0, the first sheet by position, or the name of a sheet
FirstSheet == [position |-> TRUE, name |-> <<>>]
Named(name) == [position |-> FALSE, name |-> name]

\* for sheet in xls.sheet_names: if pattern.lower() in sheet.lower():
\*     sheet_name = sheet; break
RECURSIVE SheetLoop(_, _, _, _)
SheetLoop(sheet_names, j, pattern, sheet_name) ==
    IF j > Len(sheet_names) THEN sheet_name
    ELSE IF Contains(Lower(sheet_names[j]), Lower(pattern)) THEN Named(sheet_names[j])
    ELSE SheetLoop(sheet_names, j + 1, pattern, sheet_name)

\* for pattern in config['sheet_patterns']: the loop above
RECURSIVE PatternLoop(_, _, _, _)
PatternLoop(patterns, i, sheet_names, sheet_name) ==
    IF i > Len(patterns) THEN sheet_name
    ELSE PatternLoop(patterns, i + 1, sheet_names,
                     SheetLoop(sheet_names, 1, patterns[i], sheet_name))

\* "Find the right sheet"
FindSheet(sheet_names, prest) ==
    IF prest \in DOMAIN sheet_patterns
    THEN PatternLoop(sheet_patterns[prest], 1, sheet_names, FirstSheet)
    ELSE IF \E j \in 1..Len(sheet_names) : Lower(sheet_names[j]) = <<"registre">>
    THEN Named(<<"registre">>)
    ELSE FirstSheet

SheetNames(f) == [j \in 1..Len(f.sheets) |-> f.sheets[j].name]

\* the sheet pd.read_excel(file, sheet_name=sheet_name) reads: its position,
\* or 0 when no sheet has that very name (read_excel raises)
SheetIndex(f, sheet_name) ==
    IF sheet_name.position THEN 1
    ELSE IF \E j \in 1..Len(f.sheets) : f.sheets[j].name = sheet_name.name
    THEN CHOOSE j \in 1..Len(f.sheets) : f.sheets[j].name = sheet_name.name
    ELSE 0

\* config.get("file_type") == "csv" or file.name.endswith('.csv')
IsCsv(f, prest) == prest = <<"Elise">> \/ (f.name # <<>> /\ f.name[Len(f.name)] = ".csv")

\* what _read_file raises for the file, "" when it returns a frame
ReadFault(f, prest) ==
    IF ~f.readable THEN "cannot read the file"
    ELSE IF ~IsCsv(f, prest) /\ SheetIndex(f, FindSheet(SheetNames(f), prest)) = 0
    THEN "Worksheet named 'registre' not found"
    ELSE ""

\* the frame of a sheet with df['_source_file'] = f.name
WithSource(sheet, name) ==
    [columns |-> Append(sheet.columns, SOURCE_FILE),
     rows |-> [i \in 1..Len(sheet.rows) |->
                  [c \in DOMAIN sheet.rows[i] \cup {SOURCE_FILE} |->
                      IF c = SOURCE_FILE THEN name ELSE sheet.rows[i][c]]]]

\* _read_file followed by df['_source_file'] = f.name
ReadFile(f, prest) ==
    WithSource(f.sheets[IF IsCsv(f, prest) THEN 1
                        ELSE SheetIndex(f, FindSheet(SheetNames(f), prest))],
               f.name)

\* the columns of pd.concat: the union, in the order of first appearance
RECURSIVE ConcatColumns(_, _, _)
ConcatColumns(dfs, i, acc) ==
    IF i > Len(dfs) THEN acc
    ELSE ConcatColumns(dfs, i + 1,
             acc \o SelectSeq(dfs[i].columns,
                              LAMBDA c : \A j \in 1..Len(acc) : acc[j] # c))

RECURSIVE ConcatRows(_, _, _)
ConcatRows(dfs, i, colset) ==
    IF i > Len(dfs) THEN <<>>
    ELSE [k \in 1..Len(dfs[i].rows) |->
             [c \in colset |-> IF c \in DOMAIN dfs[i].rows[k]
                               THEN dfs[i].rows[k][c] ELSE NaN]]
         \o ConcatRows(dfs, i + 1, colset)

\* pd.concat(dfs, ignore_index=True) if len(dfs) > 1 else dfs[0]
Concat(dfs) ==
    IF Len(dfs) > 1
    THEN LET columns == ConcatColumns(dfs, 1, <<>>) IN
         [columns |-> columns,
          rows |-> ConcatRows(dfs, 1, {columns[j] : j \in 1..Len(columns)})]
    ELSE dfs[1]

\* the configuration read without its weight unit
ConfigOfNoUnit(prest) ==
    IF prest \in DOMAIN PRESTATAIRE_CONFIG
    THEN [PRESTATAIRE_CONFIG[prest] EXCEPT !.weight_unit = ""]
    ELSE [pattern |-> <<Lower(prest)>>, weight_unit |-> "", bsdd_format |-> FALSE,
          columns |-> <<>>]

\* PRESTATAIRE_CONFIG.get(prestataire, {}) with the defaults of its .get calls
ConfigOf(prest) ==
    IF prest \in DOMAIN PRESTATAIRE_CONFIG THEN PRESTATAIRE_CONFIG[prest]
    ELSE [pattern |-> <<Lower(prest)>>, weight_unit |-> "", bsdd_format |-> FALSE,
          columns |-> <<>>]

\* cols[key] = self._find_column(df_input, patterns), for every key of the config
DetectColumns(columns, config) ==
    [k \in 1..Len(config.columns) |->
        <<config.columns[k][1], FindColumn(columns, config.columns[k][2])>>]

\* the loop over df_input.iterrows(): [fault, output_rows, skipped, warnings, log]
RECURSIVE RowLoop(_, _, _, _, _, _, _, _, _)
\* one iteration, r being what the call of _process_row gave
RowStep(self, rows, i, acc, cols, prest, config, dechet, site_lookup, r) ==
    LET entry == [row |-> rows[i], fault |-> r.fault, ret |-> r.ret,
                  site_name |-> r.site_name,
                  appended |-> SubSeq(r.warnings, Len(acc.warnings) + 1,
                                      Len(r.warnings))]
    IN IF r.fault # ""
       THEN [acc EXCEPT !.fault = r.fault, !.warnings = r.warnings,
                        !.log = Append(@, entry)]
       ELSE RowLoop(self, rows, i + 1,
                [acc EXCEPT !.warnings = r.warnings,
                            !.log = Append(@, entry),
                            !.output_rows = IF r.ret # NoRecord
                                            THEN Append(@, r.ret) ELSE @,
                            !.skipped = IF r.ret # NoRecord THEN @ ELSE @ + 1],
                cols, prest, config, dechet, site_lookup)

RowLoop(self, rows, i, acc, cols, prest, config, dechet, site_lookup) ==
    IF i > Len(rows) THEN acc
    ELSE RowStep(self, rows, i, acc, cols, prest, config, dechet, site_lookup,
                 ProcessRow(self, acc.warnings, rows[i], cols, prest, config,
                            dechet.lookup, dechet.default, site_lookup))

\* pd.DataFrame(output_rows)
DataFrame(output_rows) ==
    [columns |-> IF output_rows = <<>> THEN <<>> ELSE OutputFields,
     rows |-> output_rows]

HasColumn(df, col) == \E j \in 1..Len(df.columns) : df.columns[j] = col

\* for col in self.template_df.columns: if col not in df_output.columns:
\*     df_output[col] = None
RECURSIVE AddMissing(_, _, _)
AddMissing(df, template_columns, i) ==
    IF i > Len(template_columns) THEN df
    ELSE LET col == template_columns[i] IN
         IF HasColumn(df, col) THEN AddMissing(df, template_columns, i + 1)
         ELSE AddMissing(
                  [columns |-> Append(df.columns, col),
                   rows |-> [k \in 1..Len(df.rows) |->
                                [c \in DOMAIN df.rows[k] \cup {col} |->
                                    IF c = col THEN None ELSE df.rows[k][c]]]],
                  template_columns, i + 1)

\* df_output[self.template_df.columns]
SelectColumns(df, template_columns) ==
    [columns |-> template_columns,
     rows |-> [k \in 1..Len(df.rows) |->
                  [c \in {template_columns[j] : j \in 1..Len(template_columns)} |->
                      df.rows[k][c]]]]

\* Align without the final selection of the template's columns
AlignNoSelect(df, template_columns) == AddMissing(df, template_columns, 1)

\* Align with template columns
Align(df, template_columns) ==
    SelectColumns(AddMissing(df, template_columns, 1), template_columns)

\* the failure dict with a fresh warning list instead of self.warnings
FailureNoWarnings(message, warnings) ==
    [success |-> FALSE, error |-> message, data |-> NoRecord,
     rows_processed |-> 0, rows_skipped |-> 0, warnings |-> <<>>]

\* the dict of the except branch of process
Failure(message, warnings) ==
    [success |-> FALSE, error |-> message, data |-> NoRecord,
     rows_processed |-> 0, rows_skipped |-> 0, warnings |-> warnings]

\* the end of process: the returned dict, self.warnings and the history
Finish(self, end) ==
    IF end.fault # ""
    THEN [result |-> Failure(end.fault, end.warnings),
          warnings |-> end.warnings, log |-> end.log]
    ELSE [result |-> [success |-> TRUE,
                      data |-> Align(DataFrame(end.output_rows), self.template_columns),
                      rows_processed |-> Len(end.output_rows),
                      rows_skipped |-> end.skipped,
                      warnings |-> end.warnings],
          warnings |-> end.warnings, log |-> end.log]

\* process from "Detect columns" on, df_input being the combined frame
ProcessFrame(self, df_input, prest, config) ==
    Finish(self,
           RowLoop(self, df_input.rows, 1,
                   [fault |-> "", output_rows |-> <<>>, skipped |-> 0,
                    warnings |-> <<>>, log |-> <<>>],
                   DetectColumns(df_input.columns, config), prest, config,
                   GetDechetMapping(self, config.pattern),
                   GetSiteMapping(self, config.pattern)))

\* the first file of the loop "for f in files" that _read_file raises for
FirstUnread(files, prest) ==
    CHOOSE i \in 1..Len(files) :
        /\ ReadFault(files[i], prest) # ""
        /\ \A j \in 1..(i - 1) : ReadFault(files[j], prest) = ""

\* ETLProcessor.process: [result, warnings, log], the returned dict,
\* self.warnings afterwards and the history of the _process_row calls
Process(self, files, prest) ==
    IF FORMULE \notin self.dechet_df.columns \/ FORMULE \notin self.site_df.columns
    THEN [result |-> Failure("KeyError: Nom prestataire (FORMULE)", <<>>),
          warnings |-> <<>>, log |-> <<>>]
    ELSE IF \E i \in 1..Len(files) : ReadFault(files[i], prest) # ""
    THEN [result |-> Failure(ReadFault(files[FirstUnread(files, prest)], prest), <<>>),
          warnings |-> <<>>, log |-> <<>>]
    ELSE IF files = <<>>
    THEN [result |-> Failure("list index out of range", <<>>),
          warnings |-> <<>>, log |-> <<>>]
    ELSE ProcessFrame(self, Concat([i \in 1..Len(files) |-> ReadFile(files[i], prest)]),
                      prest, ConfigOf(prest))

-----------------------------------------------------------------------------
(* The Streamlit script, app.py *)

AUTO_DETECT == <<"Auto-detect">>
WARNINGS_SHOWN == 20
PREVIEW_ROWS == 10

Min(a, b) == IF a < b THEN a ELSE b

\* what a run that did not reach the engine renders
Rendered(outcome, message) ==
    [outcome |-> outcome, message |-> message, detected |-> None,
     process_args |-> NoRecord, result |-> NoRecord, shown |-> NoRecord]

Idle == Rendered("idle", "")

\* the rendering of a successful result: banner, skipped-rows warning, warning
\* panel, preview and download
Show(result, prest) ==
    [banner_rows |-> result.rows_processed,
     skipped_warning |-> result.rows_skipped > 0,
     warnings |-> SubSeq(result.warnings, 1, Min(WARNINGS_SHOWN, Len(result.warnings))),
     more |-> IF Len(result.warnings) > WARNINGS_SHOWN
              THEN Len(result.warnings) - WARNINGS_SHOWN ELSE 0,
     preview |-> SubSeq(result.data.rows, 1, Min(PREVIEW_ROWS, Len(result.data.rows))),
     download |-> prest \o <<"_Registre_Agrege_">>]

\* what a run that called process renders, r being what process gave
RenderResult(detected, chosen, r) ==
    [outcome |-> IF r.result.success THEN "success" ELSE "failure",
     message |-> IF r.result.success THEN "" ELSE r.result.error,
     detected |-> detected,
     process_args |-> [files |-> uploaded_files, prestataire |-> chosen],
     result |-> r.result,
     shown |-> IF r.result.success THEN Show(r.result, chosen) ELSE NoRecord]

(* self.warnings is a reference to a list object.  `lists` is [heap, ref]:   *)
(* heap[k] is the content of the k-th list the engine created and ref the   *)
(* one self.warnings is bound to.  A returned dict holds the reference of   *)
(* the list that was self.warnings when it was built.                       *)
NoLists == [heap |-> <<>>, ref |-> 0]

\* __init__: self.warnings = []
InitWarnings == [heap |-> <<(<<>>)>>, ref |-> 1]

\* self.warnings.clear(): the same list object, emptied
ClearWarnings(h) == [heap |-> [h.heap EXCEPT ![h.ref] = <<>>], ref |-> h.ref]

\* process: self.warnings = [], a new list object
ResetWarnings(h) == [heap |-> Append(h.heap, <<>>), ref |-> Len(h.heap) + 1]

\* the self.warnings.append calls of one process call, ws being what they append
AppendWarnings(h, ws) == [heap |-> [h.heap EXCEPT ![h.ref] = @ \o ws], ref |-> h.ref]

\* the dict process returned, with the list its 'warnings' key refers to
Returned(files, prest, r, h) ==
    [files |-> files, prestataire |-> prest, result |-> r.result, log |-> r.log,
     warnings_ref |-> h.ref]

\* the engine p after a call of process(files, prest) that gave r, h being the
\* lists after it
AfterProcess(p, files, prest, r, h) ==
    /\ processor' = [p EXCEPT !.warnings = h.heap[h.ref]]
    /\ rowlog' = r.log
    /\ lists' = h

\* the handler from the call of process on
CallProcess(p, detected, chosen, r) ==
    /\ AfterProcess(p, uploaded_files, chosen, r,
                    AppendWarnings(ResetWarnings(InitWarnings), r.warnings))
    /\ returned' = <<Returned(uploaded_files, chosen, r, ResetWarnings(InitWarnings))>>
    /\ ui' = RenderResult(detected, chosen, r)

\* the handler without the st.stop() of a failed detection
WithProcessorNoStop(p, detected) ==
    CallProcess(p, detected,
                IF prestataire = AUTO_DETECT THEN detected ELSE prestataire,
                Process(p, uploaded_files,
                        IF prestataire = AUTO_DETECT THEN detected ELSE prestataire))

\* the handler once the engine p is constructed
WithProcessor(p, detected) ==
    IF prestataire = AUTO_DETECT /\ ~Truthy(detected)
    THEN \* st.error and st.stop()
         /\ ui' = Rendered("stopped", "Could not auto-detect prestataire")
         /\ processor' = p /\ rowlog' = <<>>
         /\ lists' = InitWarnings /\ returned' = <<>>
    ELSE CallProcess(p, detected,
                     IF prestataire = AUTO_DETECT THEN detected ELSE prestataire,
                     Process(p, uploaded_files,
                             IF prestataire = AUTO_DETECT THEN detected ELSE prestataire))

\* the handler once the three inputs are present
Validated(p) ==
    IF p.fault # ""
    THEN \* construction raised: caught by the handler's own except
         /\ ui' = Rendered("exception", p.fault)
         /\ processor' = NoRecord /\ rowlog' = <<>>
         /\ lists' = NoLists /\ returned' = <<>>
    ELSE WithProcessor(p, IF prestataire = AUTO_DETECT
                          THEN detect_prestataire(uploaded_files[1].name)
                          ELSE None)

\* The Transform button handler: a script run with the button pressed
Transform ==
    /\ UNCHANGED <<etl_file, template_file, uploaded_files, prestataire>>
    /\ IF etl_file = NoRecord
       THEN /\ ui' = Rendered("error", "Please upload the ETL mapping file")
            /\ processor' = NoRecord /\ rowlog' = <<>>
            /\ lists' = NoLists /\ returned' = <<>>
       ELSE IF template_file = NoRecord
       THEN /\ ui' = Rendered("error", "Please upload the template file")
            /\ processor' = NoRecord /\ rowlog' = <<>>
            /\ lists' = NoLists /\ returned' = <<>>
       ELSE IF uploaded_files = <<>>
       THEN /\ ui' = Rendered("error", "Please upload at least one data file")
            /\ processor' = NoRecord /\ rowlog' = <<>>
            /\ lists' = NoLists /\ returned' = <<>>
       ELSE Validated(NewProcessor(etl_file, template_file))

\* A script run with the button not pressed (any other widget interaction):
\* nothing is rendered below the button and no engine exists
Rerun ==
    /\ ui # Idle
    /\ UNCHANGED <<etl_file, template_file, uploaded_files, prestataire>>
    /\ ui' = Idle /\ processor' = NoRecord /\ rowlog' = <<>>
    /\ lists' = NoLists /\ returned' = <<>>

Next == Transform \/ Rerun

-----------------------------------------------------------------------------
(* Bounded inputs *)

MaxRows == 2          \* rows of a data file
MaxFiles == 2         \* data files of an upload
MaxSiteRows == 2      \* rows of the Site sheet
MaxDechetRows == 2    \* rows of the Déchet sheet
MaxTraitRows == 2     \* rows of the Traitement générique sheet
MaxNameParts == 2     \* words of a file name
MaxCalls == 3         \* calls of process on one engine
MaxSheets == 3        \* worksheets of a data file

SeqUpTo(S, n) == UNION {[1..k -> S] : k \in 0..n}

RECURSIVE Flatten(_)
Flatten(ss) == IF ss = <<>> THEN <<>> ELSE Head(ss) \o Flatten(Tail(ss))

Range(q) == {q[i] : i \in 1..Len(q)}

\* Headers of data files
HLieu == <<"Lieu", " ", "de", " ", "collecte">>
HMatiere == <<"Matière">>
HPoids == <<"Poids">>
HCode == <<"Code", " ", "de", " ", "traitement">>
HMateriel == <<"Matériel">>
HExpediteur == <<"Expéditeur", " ", "nom", " ", "usuel">>
HDenomination == <<"Dé", "nom", "ination", " ", "usuelle">>
HQuantite == <<"Quantité", " ", "réceptionnée">>
HCodeOperation == <<"Code", " ", "opération", " ", "réalisé">>

\* a collection register (site, waste, weight, treatment code, container) and
\* a waste-tracking register (sender, waste, weight, treatment code)
ShapeV == <<HLieu, HMatiere, HPoids, HCode, HMateriel>>
ShapeB == <<HExpediteur, HDenomination, HQuantite, HCodeOperation>>

\* the row of a frame with the given columns and cells, position by position
MkRow(columns, cells) ==
    [c \in Range(columns) |-> cells[CHOOSE j \in 1..Len(columns) : columns[j] = c]]

MkSheet(name, columns, cellrows) ==
    [name |-> name, columns |-> columns,
     rows |-> [i \in 1..Len(cellrows) |-> MkRow(columns, cellrows[i])]]

\* a workbook of one sheet
MkFile(name, columns, cellrows) ==
    [name |-> name, readable |-> TRUE,
     sheets |-> <<MkSheet(<<"Feuil1">>, columns, cellrows)>>]

\* Sheets of the mapping workbook
Sheet(columns, cellrows) ==
    [columns |-> Range(columns),
     rows |-> [i \in 1..Len(cellrows) |-> MkRow(columns, cellrows[i])]]

DechetColumns == <<FORMULE, "Nom des déchets prestataire", "Nom des déchets Urbyn">>
SiteColumns ==
    <<FORMULE, "Nom site prestataire", "Nom site Urbyn", "Code de la prestation">>
ParamColumns == <<"Category", "Name">>
TraitColumns == <<CONCAT_COL, "Code traitement retraité", "Traitement">>

Workbook(dechet, param, trait, site) ==
    [sh \in {"Déchet", "Paramètres", "Traitement générique", "Site"} |->
        CASE sh = "Déchet" -> dechet
          [] sh = "Paramètres" -> param
          [] sh = "Traitement générique" -> trait
          [] sh = "Site" -> site]

\* the name of a provider as the text of a cell or of a file name
Spelled(name) ==
    IF name = <<"Les Alchimistes">> THEN <<"Les", " ", "Alchimiste", "s">> ELSE name

\* The reference workbook: every provider maps site "a" and waste "papier",
\* and has a default waste
BaseDechet ==
    Sheet(DechetColumns,
          Flatten([i \in 1..Len(SUPPORTED_PRESTATAIRES) |->
              << <<Spelled(SUPPORTED_PRESTATAIRES[i]), <<"papier">>, <<"Papier/Carton">>>>,
                 <<Spelled(SUPPORTED_PRESTATAIRES[i]), NaN, <<"DIB">>>> >>]))
BaseParam ==
    Sheet(ParamColumns,
          << <<(<<"Recyclable">>), <<"Papier/Carton">>>>,
             <<(<<"Résiduel">>), <<"DIB">>>> >>)
BaseTrait ==
    Sheet(TraitColumns,
          << <<(<<"Recyclable", "R5">>), <<"R3">>, <<"Recyclage matière">>>>,
             <<(<<"Recyclable">>), <<"R1">>, <<"Valorisation">>>>,
             <<(<<"Résiduel", "D10">>), <<"D10">>, <<"Incinération">>>> >>)
BaseSite ==
    Sheet(SiteColumns,
          [i \in 1..Len(SUPPORTED_PRESTATAIRES) |->
              <<Spelled(SUPPORTED_PRESTATAIRES[i]), <<"a">>,
                <<"PAR01", " ", "-", " ", "Paris">>, <<"P1">>>>])

BaseWorkbook == Workbook(BaseDechet, BaseParam, BaseTrait, BaseSite)

\* a workbook without its Site sheet, and one whose Déchet sheet lacks the
\* provider column
WorkbookNoSheet ==
    [sh \in {"Déchet", "Paramètres", "Traitement générique"} |-> BaseWorkbook[sh]]
WorkbookNoColumn ==
    Workbook(Sheet(<<"Nom des déchets prestataire", "Nom des déchets Urbyn">>, <<>>),
             BaseParam, BaseTrait, BaseSite)

\* Templates: the full registry header, and a header that reorders some
\* produced fields and adds columns the engine does not produce
TemplateFull == [columns |-> OutputFields]
TemplatePart ==
    [columns |-> <<"Masse totale (kg)", "Identifiant", "Nom du site",
                   "Code traitement", "Remarque">>]

Selectors == {AUTO_DETECT} \cup Range(SUPPORTED_PRESTATAIRES)

BAC660 == <<"Bac", " ", "Roulant", " ", "660L">>

-----------------------------------------------------------------------------
(* Spec: the application.  Every combination of the widgets' values: each  *)
(* of the two configuration files present, absent or defective, every      *)
(* selector option, and up to MaxFiles data files.                         *)

\* a Veolia register whose second row has an unmapped site and a weight
\* that is not a number
FileVeolia ==
    MkFile(<<"Veolia", "_", "2024", ".xlsx">>, ShapeV,
           << <<(<<"A">>), <<"Papier">>, Num(250), <<"R5">>, BAC660>>,
              <<(<<"c">>), <<"Verre">>, <<"n/a">>, NaN, NaN>> >>)
\* a Trackdéchets register: an unmapped sender without weight, a mapped one
FileTD ==
    MkFile(<<"TD", "-", "Registre", ".xlsx">>, ShapeB,
           << <<(<<"c">>), <<"Papier">>, Num(0), <<"R5">>>>,
              <<(<<"a">>), NaN, Num(1), NaN>> >>)
\* a register without rows, under a name no pattern matches
FileExport == MkFile(<<"export", ".xlsx">>, ShapeV, <<>>)
\* a file pandas cannot read
FileCorrupt ==
    [name |-> <<"Suez", ".xlsx">>, readable |-> FALSE, sheets |-> <<>>]

AppFiles == {FileVeolia, FileTD, FileExport, FileCorrupt}

InitRun ==
    processor = NoRecord /\ ui = Idle /\ rowlog = <<>> /\ lists = NoLists /\ returned = <<>>

Init ==
    /\ etl_file \in {NoRecord, BaseWorkbook, WorkbookNoSheet, WorkbookNoColumn}
    /\ template_file \in {NoRecord, TemplateFull, TemplatePart}
    /\ uploaded_files \in SeqUpTo(AppFiles, MaxFiles)
    /\ prestataire \in Selectors
    /\ InitRun

Spec == Init /\ [][Next]_vars

-----------------------------------------------------------------------------
(* SpecRows: one register of up to MaxRows rows for a provider chosen in   *)
(* the selector, against the reference workbook.  The rows vary in their   *)
(* site (mapped or not), their weight cell and, for Paprec, their          *)
(* container cell.                                                         *)

\* weight cells: empty, numbers (in hundredths), and text
Weights ==
    {NaN, Num(0), Num(1), Num(250), <<"0">>, <<"n/a">>, <<"2", ",", "5">>,
     <<" ", "1", ".", "5">>}

RowsV == {<<s, <<"Papier">>, w, <<"R5">>, NaN>> : s \in {<<"a">>, <<"c">>}, w \in Weights}
RowsB == {<<s, <<"Papier">>, w, <<"R5">>>> : s \in {<<"a">>, <<"c">>}, w \in Weights}
RowsP ==
    {<<(<<"a">>), <<"Papier">>, w, <<"R5">>, c>> :
        w \in {Num(0), Num(250), <<"n/a">>},
        c \in {NaN, BAC660, Num(66000)}}

InitRows ==
    /\ etl_file = BaseWorkbook
    /\ template_file = TemplateFull
    /\ \E choice \in {<<(<<"Veolia">>), ShapeV, RowsV>>,
                      <<(<<"Paprec">>), ShapeV, RowsP>>,
                      <<(<<"Screlec">>), ShapeB, RowsB>>} :
         /\ prestataire = choice[1]
         /\ \E cellrows \in SeqUpTo(choice[3], MaxRows) :
                uploaded_files = <<MkFile(<<"registre", ".xlsx">>, choice[2], cellrows)>>
    /\ InitRun

SpecRows == InitRows /\ [][Next]_vars

-----------------------------------------------------------------------------
(* SpecSite: a Site sheet of up to MaxSiteRows rows, and a register of two *)
(* rows, the second with a site no key overlaps, for a provider without    *)
(* (Veolia) and with (Screlec) the strict-movement flag.                   *)

\* the decimal digit of i, for the names that tell the rows of a sheet apart
Digit(i) == CHOOSE c \in DOMAIN DigitVal : DigitVal[c] = i

SiteKeys == {<<"a">>, <<"a", "b">>, <<" ", "B">>, NaN}
SiteFormules == {<<"VEOLIA", " ", "Screlec">>, <<"Suez">>}
SiteSheets ==
    {Sheet(SiteColumns,
           [i \in 1..Len(q) |-> <<q[i][1], q[i][2], <<"S", Digit(i)>>, <<"P", Digit(i)>>>>]) :
        q \in SeqUpTo(SiteFormules \X SiteKeys, MaxSiteRows)}

SiteValues == {<<"a">>, <<" ", "A", " ">>, <<"a", "b", "c">>, <<"c">>, NaN}

InitSite ==
    /\ \E sh \in SiteSheets : etl_file = Workbook(BaseDechet, BaseParam, BaseTrait, sh)
    /\ template_file = TemplateFull
    /\ \E choice \in {<<(<<"Veolia">>), ShapeV>>, <<(<<"Screlec">>), ShapeB>>} :
         /\ prestataire = choice[1]
         /\ \E v \in SiteValues, w \in {Num(0), Num(100)} :
                uploaded_files =
                    <<MkFile(<<"registre", ".xlsx">>, choice[2],
                             IF choice[2] = ShapeV
                             THEN << <<v, <<"Papier">>, w, <<"R5">>, NaN>>,
                                     <<(<<"d">>), <<"Papier">>, Num(100), <<"R5">>, NaN>> >>
                             ELSE << <<v, <<"Papier">>, w, <<"R5">>>>,
                                     <<(<<"d">>), <<"Papier">>, Num(100), <<"R5">>>> >>)>>
    /\ InitRun

SpecSite == InitSite /\ [][Next]_vars

-----------------------------------------------------------------------------
(* SpecDechet: a Déchet sheet of up to MaxDechetRows rows and a Veolia     *)
(* register of one row, whose waste cell is empty, blank, mapped under     *)
(* another spelling, or unmapped.                                          *)

DechetFormules == {<<"Veolia">>, <<"Suez">>}
DechetNames == {NaN, <<"papier">>, <<" ", "Verre">>}
UrbynNames == {NaN, <<"DIB">>, <<"Verre">>}
DechetSheets ==
    {Sheet(DechetColumns, q) :
        q \in SeqUpTo(DechetFormules \X DechetNames \X UrbynNames, MaxDechetRows)}

WasteValues == {NaN, <<" ">>, <<"Papier">>, <<"verre", " ">>, <<"Bois">>}

InitDechet ==
    /\ \E sh \in DechetSheets : etl_file = Workbook(sh, BaseParam, BaseTrait, BaseSite)
    /\ template_file = TemplateFull
    /\ prestataire = <<"Veolia">>
    /\ \E v \in WasteValues :
           uploaded_files =
               <<MkFile(<<"registre", ".xlsx">>, ShapeV,
                        << <<(<<"a">>), v, Num(100), <<"R5">>, NaN>> >>)>>
    /\ InitRun

SpecDechet == InitDechet /\ [][Next]_vars

-----------------------------------------------------------------------------
(* SpecTrait: a Traitement générique sheet of up to MaxTraitRows rows,     *)
(* with or without its code column, and a Veolia register of one row whose *)
(* waste is of category Recyclable (Papier) or Résiduel (the default), and *)
(* whose treatment code is empty, blank or given.                          *)

TraitKeys == {<<"Recyclable", "R5">>, <<"Recyclable">>, <<"Résiduel">>}
TraitSheets ==
    {Sheet(TraitColumns,
           [i \in 1..Len(q) |->
               <<q[i][1], IF q[i][2] THEN <<"T", Digit(i)>> ELSE NaN,
                 <<"Traitement", " ", Digit(i)>>>>]) :
        q \in SeqUpTo(TraitKeys \X BOOLEAN, MaxTraitRows)}
    \cup
    {Sheet(<<CONCAT_COL, "Traitement">>,
           [i \in 1..Len(q) |-> <<q[i], <<"Traitement", " ", Digit(i)>>>>]) :
        q \in SeqUpTo(TraitKeys, MaxTraitRows)}

CodeValues == {NaN, <<" ">>, <<"R5">>, <<" ", "R5", " ">>, <<"D10">>}

InitTrait ==
    /\ \E sh \in TraitSheets : etl_file = Workbook(BaseDechet, BaseParam, sh, BaseSite)
    /\ template_file = TemplateFull
    /\ prestataire = <<"Veolia">>
    /\ \E v \in {<<"Papier">>, <<"Bois">>}, c \in CodeValues :
           uploaded_files =
               <<MkFile(<<"registre", ".xlsx">>, ShapeV,
                        << <<(<<"a">>), v, Num(100), c, NaN>> >>)>>
    /\ InitRun

SpecTrait == InitTrait /\ [][Next]_vars

-----------------------------------------------------------------------------
(* SpecDetect: the selector on Auto-detect and one register whose name is  *)
(* made of up to MaxNameParts words joined by "-".                         *)

NameWords ==
    {<<"VEOLIA">>, <<"Suez">>, <<"Apeyron">>, <<"Les", " ", "Alchimiste", "s">>,
     <<"Paprec">>, <<"Elise">>, <<"Screlec">>, <<"Trackdechet">>,
     <<"TD", "-", "Registre">>, <<"TD">>, <<"Registre">>, <<"Export">>}

RECURSIVE Join(_)
Join(words) ==
    IF Len(words) = 1 THEN words[1] ELSE words[1] \o <<"-">> \o Join(Tail(words))

FileNames == {Join(q) \o <<".xlsx">> : q \in SeqUpTo(NameWords, MaxNameParts) \ {<<>>}}

InitDetect ==
    /\ etl_file = BaseWorkbook
    /\ template_file = TemplateFull
    /\ prestataire = AUTO_DETECT
    /\ \E name \in FileNames :
           uploaded_files =
               <<MkFile(name, ShapeV, << <<(<<"a">>), <<"Papier">>, Num(100), <<"R5">>, NaN>> >>)>>
    /\ InitRun

SpecDetect == InitDetect /\ [][Next]_vars

-----------------------------------------------------------------------------
(* SpecFiles: up to MaxFiles registers of up to MaxRows rows each for      *)
(* Veolia or Screlec.  The registers of a provider come in two layouts     *)
(* that name the weight column differently; every weight is a number.      *)

HMasse == <<"Masse">>
HQuantiteAcceptee == <<"Quantité", " ", "acceptée">>
ShapeV2 == <<HLieu, HMatiere, HMasse, HCode, HMateriel>>
ShapeB2 == <<HExpediteur, HDenomination, HQuantiteAcceptee, HCodeOperation>>

\* the registers of a layout: every row of site "a", with or without weight
LayoutFiles(name, shape) ==
    {MkFile(name, shape,
            [i \in 1..Len(q) |->
                IF Len(shape) = 5 THEN <<(<<"a">>), <<"Papier">>, q[i], <<"R5">>, NaN>>
                ELSE <<(<<"a">>), <<"Papier">>, q[i], <<"R5">>>>]) :
        q \in SeqUpTo({Num(0), Num(100)}, MaxRows)}

InitFiles ==
    /\ etl_file = BaseWorkbook
    /\ template_file = TemplateFull
    /\ \E choice \in {<<(<<"Veolia">>), ShapeV, ShapeV2>>,
                      <<(<<"Screlec">>), ShapeB, ShapeB2>>} :
         /\ prestataire = choice[1]
         /\ uploaded_files \in
                SeqUpTo(LayoutFiles(<<"janvier", ".xlsx">>, choice[2])
                            \cup LayoutFiles(<<"février", ".xlsx">>, choice[3]),
                        MaxFiles)
    /\ InitRun

SpecFiles == InitFiles /\ [][Next]_vars

-----------------------------------------------------------------------------
(* SpecEngine: the engine the handler built is kept and process is called  *)
(* on it again, up to MaxCalls calls in all, each with one register.  The  *)
(* registers differ in the warnings their rows produce: none, two, two     *)
(* others followed by a fault, and a file that cannot be read.             *)

EngineRegister(cellrows) == MkFile(<<"registre", ".xlsx">>, ShapeV, cellrows)

EngineRow(site, weight) == <<site, <<"Papier">>, weight, <<"R5">>, NaN>>

EngineFiles ==
    {EngineRegister(<<EngineRow(<<"a">>, Num(100))>>),
     EngineRegister(<<EngineRow(<<"d">>, Num(100)), EngineRow(<<"c">>, Num(100))>>),
     EngineRegister(<<EngineRow(<<"c">>, Num(100)), EngineRow(<<"d">>, <<"n/a">>),
                      EngineRow(<<"c">>, Num(100))>>),
     FileCorrupt}

EngineProviders == {<<"Veolia">>, <<"Paprec">>}

\* a further call processor.process([f], prest) on the engine of the run, for
\* the provider of the selector
ProcessCall(f, prest, r) ==
    /\ AfterProcess(processor, <<f>>, prest, r,
                    AppendWarnings(ResetWarnings(lists), r.warnings))
    /\ returned' = Append(returned, Returned(<<f>>, prest, r, ResetWarnings(lists)))

ProcessAgain ==
    /\ processor # NoRecord
    /\ Len(returned) < MaxCalls
    /\ \E f \in EngineFiles :
           ProcessCall(f, prestataire, Process(processor, <<f>>, prestataire))
    /\ UNCHANGED <<etl_file, template_file, uploaded_files, prestataire, ui>>

NextEngine == Transform \/ Rerun \/ ProcessAgain

InitEngine ==
    /\ etl_file = BaseWorkbook
    /\ template_file = TemplateFull
    /\ prestataire \in EngineProviders
    /\ \E f \in EngineFiles : uploaded_files = <<f>>
    /\ InitRun

SpecEngine == InitEngine /\ [][NextEngine]_vars

-----------------------------------------------------------------------------
(* SpecSheets: one register of up to MaxSheets worksheets, for Suez (which *)
(* has sheet-name keywords) and Veolia (which has none).  Every sheet has  *)
(* one row, whose "Matière" cell holds the name of the sheet, so that the  *)
(* rows the run processed tell which sheet was read.                       *)

\* Excel does not allow two sheets whose names differ only in letter case
SheetNameSet ==
    {<<"Registre">>, <<"registre">>, <<"Data">>, <<"Déchets", " ", "2024">>, <<"Feuil1">>}

SheetLists ==
    {q \in SeqUpTo(SheetNameSet, MaxSheets) :
        /\ q # <<>>
        /\ \A i, j \in 1..Len(q) : i # j => Lower(q[i]) # Lower(q[j])}

MarkedSheet(name) ==
    MkSheet(name, ShapeV, << <<(<<"a">>), name, Num(100), <<"R5">>, NaN>> >>)

InitSheets ==
    /\ etl_file = BaseWorkbook
    /\ template_file = TemplateFull
    /\ prestataire \in {<<"Suez">>, <<"Veolia">>}
    /\ \E q \in SheetLists :
           uploaded_files = <<[name |-> <<"registre", ".xlsx">>, readable |-> TRUE,
                               sheets |-> [j \in 1..Len(q) |-> MarkedSheet(q[j])]]>>
    /\ InitRun

SpecSheets == InitSheets /\ [][Next]_vars

-----------------------------------------------------------------------------
(* SpecNoSite: a register of one row whose site is absent, either because  *)
(* the cell is empty or because the register has no site column, for a     *)
(* non-strict and a strict provider, against Site sheets of up to          *)
(* MaxSiteRows rows whose provider-site cell may be blank or empty.        *)

NoSiteKeys == {<<" ">>, <<"a">>, NaN}

\* every row of the sheet is a row of both providers
NoSiteSheets ==
    {Sheet(SiteColumns,
           [i \in 1..Len(q) |->
               <<(<<"VEOLIA", " ", "Screlec">>), q[i], <<"S", Digit(i)>>, <<"P", Digit(i)>>>>]) :
        q \in SeqUpTo(NoSiteKeys, MaxSiteRows)}

\* the layouts without their site column
ShapeVNoSite == <<HMatiere, HPoids, HCode, HMateriel>>
ShapeBNoSite == <<HDenomination, HQuantite, HCodeOperation>>

NoSiteRegisters(prest) ==
    IF prest = <<"Veolia">>
    THEN {MkFile(<<"registre", ".xlsx">>, ShapeV,
                 << <<v, <<"Papier">>, w, <<"R5">>, NaN>> >>) :
              v \in {NaN, <<"a">>}, w \in {Num(0), Num(100)}}
         \cup {MkFile(<<"registre", ".xlsx">>, ShapeVNoSite,
                      << <<(<<"Papier">>), w, <<"R5">>, NaN>> >>) :
                   w \in {Num(0), Num(100)}}
    ELSE {MkFile(<<"registre", ".xlsx">>, ShapeB, << <<v, <<"Papier">>, w, <<"R5">>>> >>) :
              v \in {NaN, <<"a">>}, w \in {Num(0), Num(100)}}
         \cup {MkFile(<<"registre", ".xlsx">>, ShapeBNoSite,
                      << <<(<<"Papier">>), w, <<"R5">>>> >>) :
                   w \in {Num(0), Num(100)}}

InitNoSite ==
    /\ \E sh \in NoSiteSheets : etl_file = Workbook(BaseDechet, BaseParam, BaseTrait, sh)
    /\ template_file = TemplateFull
    /\ prestataire \in {<<"Veolia">>, <<"Screlec">>}
    /\ \E f \in NoSiteRegisters(prestataire) : uploaded_files = <<f>>
    /\ InitRun

SpecNoSite == InitNoSite /\ [][Next]_vars

-----------------------------------------------------------------------------
(* Properties of the application (Spec) *)

\* process was invoked in the run that rendered ui
Called == ui.process_args # NoRecord

InputsPresent ==
    etl_file # NoRecord /\ template_file # NoRecord /\ uploaded_files # <<>>

\* no pattern of the registry occurs in the lower-cased name
NoPatternIn(name) ==
    \A n \in Range(SUPPORTED_PRESTATAIRES) :
        \A k \in 1..Len(PRESTATAIRE_CONFIG[n].pattern) :
            ~Contains(Lower(name), PRESTATAIRE_CONFIG[n].pattern[k])

\* the rows _process_row returned a dict for, in order
Emitted == SelectSeq(rowlog, LAMBDA e : e.ret # NoRecord)

\* C1: an engine exists and process is invoked only when the mapping file,
\* the template and at least one data file are present; process receives the
\* uploaded files and one of the eight supported names; and a run with the
\* selector on Auto-detect whose first file name holds no pattern stops
\* before process is invoked.
C1_ProcessOnlyWithInputs ==
    /\ processor # NoRecord => InputsPresent
    /\ Called => /\ InputsPresent
                 /\ processor # NoRecord
                 /\ ui.process_args.files = uploaded_files
                 /\ ui.process_args.prestataire \in Range(SUPPORTED_PRESTATAIRES)
                 /\ prestataire # AUTO_DETECT => ui.process_args.prestataire = prestataire
    /\ (/\ ui # Idle /\ InputsPresent /\ prestataire = AUTO_DETECT
        /\ NoPatternIn(uploaded_files[1].name)) => ~Called

\* a run on Auto-detect that reached process
C1_Witness == Called /\ prestataire = AUTO_DETECT

\* C2: a process invocation that meets a fault returns to the handler (which
\* renders st.error, not its own exception) a result with success false, the
\* fault's message, no data, both counts 0, and as warnings exactly the
\* warnings the rows appended before the fault, which are also self.warnings.
C2_FailureResult ==
    Called =>
        /\ ui.outcome \in {"success", "failure"}
        /\ ~ui.result.success =>
              /\ ui.outcome = "failure"
              /\ ui.result.error # "" /\ ui.message = ui.result.error
              /\ ui.result.data = NoRecord
              /\ ui.result.rows_processed = 0 /\ ui.result.rows_skipped = 0
              /\ ui.result.warnings =
                     Flatten([i \in 1..Len(rowlog) |-> rowlog[i].appended])
              /\ processor.warnings = ui.result.warnings

\* a fault in a row after an earlier warning
C2_Witness == Called /\ ~ui.result.success /\ ui.result.warnings # <<>>

\* C4: the table of a successful process has exactly the template's columns
\* in the template's order; in every row a produced field keeps the value
\* _process_row gave it and a template column that is not produced is None.
C4_OutputMatchesTemplate ==
    (Called /\ ui.result.success) =>
        /\ ui.result.data.columns = template_file.columns
        /\ Len(ui.result.data.rows) = Len(Emitted)
        /\ \A k \in 1..Len(ui.result.data.rows) :
              /\ DOMAIN ui.result.data.rows[k] = Range(template_file.columns)
              /\ \A c \in Range(template_file.columns) :
                    ui.result.data.rows[k][c] =
                        IF c \in Range(OutputFields) THEN Emitted[k].ret[c] ELSE None

\* rows emitted against the template that reorders, drops and adds columns
C4_Witness ==
    Called /\ ui.result.success /\ template_file = TemplatePart
           /\ ui.result.rows_processed > 0

-----------------------------------------------------------------------------
(* Properties of row processing (SpecRows) *)

\* the weight cell of an uploaded row
WeightCell(row) == IF HPoids \in DOMAIN row THEN row[HPoids] ELSE row[HQuantite]

\* C3: whatever the rows of the frame hold, process succeeds and every row is
\* either emitted or discarded.
C3_RowProblemsNeverAbort ==
    Called =>
        /\ ui.result.success
        /\ ui.result.rows_processed + ui.result.rows_skipped
               = Len(uploaded_files[1].sheets[1].rows)

\* C5: for Screlec and Trackdechet rows_skipped counts exactly the rows whose
\* weight is absent or zero and all other rows are emitted; for the other
\* providers no row is skipped and all are emitted.
C5_StrictMovement ==
    Called =>
        LET rows == uploaded_files[1].sheets[1].rows
            weightless == {i \in 1..Len(rows) : WeightCell(rows[i]) \in {NaN, Num(0)}}
        IN IF ui.process_args.prestataire \in {<<"Screlec">>, <<"Trackdechet">>}
           THEN /\ ui.result.rows_skipped = Cardinality(weightless)
                /\ ui.result.rows_processed = Len(rows) - Cardinality(weightless)
           ELSE /\ ui.result.rows_skipped = 0
                /\ ui.result.rows_processed = Len(rows)

\* C6: after a successful process every warning was appended by a row that
\* was emitted with the sentinel site, so there are no more warnings than
\* emitted rows.
C6_WarningsOnlyForEmittedRows ==
    (Called /\ ui.result.success) =>
        /\ Len(ui.result.warnings) <= ui.result.rows_processed
        /\ \A i \in 1..Len(rowlog) :
              rowlog[i].appended # <<>> =>
                  /\ rowlog[i].ret # NoRecord
                  /\ rowlog[i].ret["Nom du site"] = <<"Site inconnu">>

\* the number (in hundredths) that a weight cell of an emitted row stands for
WeightValue(w) ==
    CASE w = NaN -> 0
      [] IsNum(w) -> w[2]
      [] w = <<"0">> -> 0
      [] w = <<" ", "1", ".", "5">> -> 150

\* C12: in every emitted row "Masse totale (kg)" is the input weight times
\* 1000 for a provider in tonnes, the input weight for a provider in kg, and
\* 0 when the weight is absent or zero.
C12_MasseTotale ==
    Called =>
        \A i \in 1..Len(rowlog) :
            rowlog[i].ret # NoRecord =>
                LET v == WeightValue(WeightCell(rowlog[i].row))
                    unit == PRESTATAIRE_CONFIG[ui.process_args.prestataire].weight_unit
                IN rowlog[i].ret["Masse totale (kg)"] =
                       IF v = 0 THEN Num(0)
                       ELSE IF unit = "tonnes" THEN Num(v * 1000)
                       ELSE Num(v)

\* a row of 2.5 tonnes emitted with mass 2500 kg, followed by a row without
\* weight emitted with mass 0
C12_Witness ==
    /\ Called /\ Len(rowlog) = 2
    /\ rowlog[1].ret # NoRecord /\ rowlog[2].ret # NoRecord
    /\ WeightCell(rowlog[1].row) = Num(250) /\ WeightCell(rowlog[2].row) = NaN
    /\ rowlog[1].ret["Masse totale (kg)"] = Num(250000)
    /\ rowlog[2].ret["Masse totale (kg)"] = Num(0)

-----------------------------------------------------------------------------
(* Properties of site resolution (SpecSite) *)

\* the site lookup of the run's provider
RunSiteLookup ==
    GetSiteMapping(processor, PRESTATAIRE_CONFIG[ui.process_args.prestataire].pattern)

\* the lookup's entry for a value: the entry under the lower-cased, trimmed
\* value, else the first entry in insertion order whose key contains it or is
\* contained in it, else NoRecord
Overlap(a, b) == Contains(a, b) \/ Contains(b, a)
SiteEntry(lookup, value) ==
    LET key == Lower(Strip(value))
        exact == {i \in 1..Len(lookup) : lookup[i][1] = key}
        partial == {i \in 1..Len(lookup) : Overlap(lookup[i][1], key)}
    IN IF exact # {} THEN lookup[CHOOSE i \in exact : TRUE][2]
       ELSE IF partial # {}
       THEN lookup[CHOOSE i \in partial : \A j \in partial : i <= j][2]
       ELSE NoRecord

\* a row call resolved its site to the entry: no warning, and the emitted row
\* carries the entry's site and prestation code
SiteMatched(e, entry) ==
    /\ e.appended = <<>>
    /\ e.ret # NoRecord =>
          /\ e.ret["Nom du site"] = entry.nom_site
          /\ e.ret["Code de la prestation"] = entry.code_prestation

SentinelRow(ret) ==
    /\ ret["Nom du site"] = <<"Site inconnu">>
    /\ ret["Code de la prestation"] = None

-----------------------------------------------------------------------------
(* Properties of waste resolution (SpecDechet) *)

\* the provider-filtered rows of the Déchet sheet, and the mapping made of them
RunDechetRows ==
    FilterRows(processor.dechet_df.rows,
               PRESTATAIRE_CONFIG[ui.process_args.prestataire].pattern)
RunDechetMapping ==
    GetDechetMapping(processor, PRESTATAIRE_CONFIG[ui.process_args.prestataire].pattern)

DechetName(row) == row["Nom des déchets prestataire"]
Urbyn(row) == row["Nom des déchets Urbyn"]

First(S) == CHOOSE i \in S : \A j \in S : i <= j
Last(S) == CHOOSE i \in S : \A j \in S : i >= j

\* the canonical name mapped to a waste value: that of the last row with a
\* canonical name whose provider-side name is the value, lower-cased and
\* trimmed; the default when the value is blank or no row has it
DechetFin(rows, value, default) ==
    LET named == {i \in 1..Len(rows) :
                     /\ ~IsNa(DechetName(rows[i])) /\ ~IsNa(Urbyn(rows[i]))
                     /\ Lower(Strip(DechetName(rows[i]))) = Lower(Strip(value))}
    IN IF Strip(value) = <<>> \/ named = {} THEN default
       ELSE Urbyn(rows[Last(named)])

RowsResolveWith(default) ==
    \A i \in 1..Len(rowlog) :
        rowlog[i].ret # NoRecord =>
            rowlog[i].ret["Déchet fin"] =
                DechetFin(RunDechetRows,
                          SafeGet(rowlog[i].row, HMatiere, <<>>), default)

\* the provider-filtered rows that name a default: no provider-side name, and
\* a canonical name
DefaultRows ==
    {i \in 1..Len(RunDechetRows) :
        IsNa(DechetName(RunDechetRows[i])) /\ ~IsNa(Urbyn(RunDechetRows[i]))}

\* C8 as stated: the default is the canonical name of the first
\* provider-filtered row whose provider-side name is absent.
C8_DefaultIsFirstRow ==
    Called =>
        LET default == IF DefaultRows = {} THEN None
                       ELSE Urbyn(RunDechetRows[First(DefaultRows)])
        IN /\ RunDechetMapping.default = default
           /\ RowsResolveWith(default)

\* C8, amended: the default is the canonical name of the last
\* provider-filtered row whose provider-side name is absent (None without
\* such a row), and a row's waste resolves to it when its value is absent,
\* blank or unmapped, and to the lookup entry of its lower-cased, trimmed
\* value otherwise.
C8_WasteResolution ==
    Called =>
        LET default == IF DefaultRows = {} THEN None
                       ELSE Urbyn(RunDechetRows[Last(DefaultRows)])
        IN /\ RunDechetMapping.default = default
           /\ RowsResolveWith(default)

\* two default rows with different canonical names, and a row without waste
C8_Witness ==
    /\ Called /\ Len(RunDechetRows) = 2
    /\ \A i \in 1..2 : IsNa(DechetName(RunDechetRows[i])) /\ ~IsNa(Urbyn(RunDechetRows[i]))
    /\ Urbyn(RunDechetRows[1]) # Urbyn(RunDechetRows[2])
    /\ Len(rowlog) = 1 /\ rowlog[1].ret # NoRecord
    /\ rowlog[1].ret["Déchet fin"] = Urbyn(RunDechetRows[2])

-----------------------------------------------------------------------------
(* Properties of treatment resolution (SpecTrait) *)

\* the entry of the treatment lookup for a category and a raw code: the one
\* keyed by category + trimmed code when the code is not blank and the key
\* exists, else the one keyed by the category, else NoRecord
TraitEntry(lookup, agrege, code) ==
    IF Strip(code) # <<>> /\ DictHas(lookup, agrege \o Strip(code))
    THEN DictGet(lookup, agrege \o Strip(code), NoRecord)
    ELSE DictGet(lookup, agrege, NoRecord)

\* C9: for an emitted row with a category, the output "Code traitement" is
\* the code of the entry resolved for the category and the row's code, and
\* the raw provider code whenever no code results (no entry, or an entry
\* without a code).
C9_TreatmentResolution ==
    Called =>
        \A i \in 1..Len(rowlog) :
            LET ret == rowlog[i].ret
                raw == SafeGet(rowlog[i].row, HCode, <<>>)
            IN (ret # NoRecord /\ ~IsNa(ret["Déchets agrégé"])) =>
                  LET entry == TraitEntry(processor.traitement_lookup,
                                          ret["Déchets agrégé"], raw)
                  IN /\ ret["Code traitement prestataire"] = raw
                     /\ ret["Code traitement"] =
                            IF entry = NoRecord \/ IsNa(entry.code) THEN raw
                            ELSE entry.code

-----------------------------------------------------------------------------
(* Properties of detection (SpecDetect) *)

\* a pattern of provider n occurs in the lower-cased name
Occurs(n, name) ==
    \E k \in 1..Len(PRESTATAIRE_CONFIG[n].pattern) :
        Contains(Lower(name), PRESTATAIRE_CONFIG[n].pattern[k])

\* the providers of the registry before n
Before(n) ==
    {SUPPORTED_PRESTATAIRES[j] : j \in 1..(First({i \in 1..Len(SUPPORTED_PRESTATAIRES) :
                                                   SUPPORTED_PRESTATAIRES[i] = n}) - 1)}

\* what detection gave in the run that rendered ui
Detected == IF ui.outcome = "stopped" THEN None ELSE ui.detected

Ran == ui.outcome \in {"stopped", "success", "failure"}

FirstInRegistryOrder ==
    LET name == uploaded_files[1].name IN
    /\ Detected = None <=> \A n \in Range(SUPPORTED_PRESTATAIRES) : ~Occurs(n, name)
    /\ \A n \in Range(SUPPORTED_PRESTATAIRES) :
           Detected = n <=> (Occurs(n, name) /\ \A m \in Before(n) : ~Occurs(m, name))
    /\ Contains(Lower(name), <<"veolia">>) => Detected = <<"Veolia">>
    /\ ui.outcome = "stopped" => processor = NewProcessor(etl_file, template_file)

\* C10 as stated: the first provider in registry order whose pattern occurs,
\* and a name containing "td-registre" yields Trackdechet.
C10_TdRegistreIsTrackdechet ==
    Ran => /\ FirstInRegistryOrder
           /\ Contains(Lower(uploaded_files[1].name), <<"td", "-", "registre">>)
                  => Detected = <<"Trackdechet">>

\* C10, amended: detection gives the first provider in registry order whose
\* pattern occurs in the lower-cased name and nothing when none occurs; a
\* name containing "veolia" gives Veolia, and one containing "td-registre"
\* gives Trackdechet unless the pattern of an earlier provider occurs in it
\* too; the engine is as constructed after a detection.
C10_Detection ==
    Ran => /\ FirstInRegistryOrder
           /\ (/\ Contains(Lower(uploaded_files[1].name), <<"td", "-", "registre">>)
               /\ \A m \in Before(<<"Trackdechet">>) : ~Occurs(m, uploaded_files[1].name))
                  => Detected = <<"Trackdechet">>

\* a name that holds only the second alternative of Trackdechet's pattern
C10_Witness ==
    /\ Ran /\ Detected = <<"Trackdechet">>
    /\ ~Contains(Lower(uploaded_files[1].name), <<"trackdechet">>)

-----------------------------------------------------------------------------
(* Properties of multi-file processing (SpecFiles) *)

\* rows_processed of the run's engine and provider on one file alone
Alone(f) ==
    Process(processor, <<f>>, ui.process_args.prestataire).result.rows_processed

\* C11: two files processed together give as rows_processed the sum of the
\* rows_processed of each file processed alone, and every row that produced
\* output carries the name of its file.
C11_TwoFilesAdd ==
    (Called /\ Len(uploaded_files) = 2) =>
        /\ ui.result.rows_processed = Alone(uploaded_files[1]) + Alone(uploaded_files[2])
        /\ \A i \in 1..Len(rowlog) :
              rowlog[i].ret # NoRecord =>
                  rowlog[i].row[SOURCE_FILE] =
                      IF i <= Len(uploaded_files[1].sheets[1].rows) THEN uploaded_files[1].name
                      ELSE uploaded_files[2].name

-----------------------------------------------------------------------------
(* Properties of the warning log over several calls (SpecEngine) *)

\* the warnings the rows of a call produce, in row order: those of each row
\* the call reached, processed on its own by an engine that has made no call
RowWarnings(frame, n, prest) ==
    Flatten([i \in 1..n |->
                ProcessFrame(NewProcessor(etl_file, template_file),
                             [columns |-> frame.columns, rows |-> <<frame.rows[i]>>],
                             prest, ConfigOf(prest)).result.warnings])

CallWarnings(e) ==
    IF e.log = <<>> THEN <<>>
    ELSE RowWarnings(Concat([i \in 1..Len(e.files) |-> ReadFile(e.files[i], e.prestataire)]),
                     Len(e.log), e.prestataire)

\* C13: after any sequence of process calls on one engine, the warnings of
\* every dict returned so far are, in row order, exactly the warnings of the
\* rows of the call that returned it: none from an earlier call, and a later
\* call has not changed them.
C13_WarningsPerCall ==
    \A k \in 1..Len(returned) :
        /\ returned[k].result.warnings = CallWarnings(returned[k])
        /\ lists.heap[returned[k].warnings_ref] = returned[k].result.warnings

\* three calls on one engine: the first returned two warnings, the second two
\* others, the third none, and the first dict still holds its two
C13_Witness ==
    /\ Len(returned) = 3
    /\ Len(returned[1].result.warnings) = 2
    /\ Len(returned[2].result.warnings) = 2
    /\ returned[2].result.warnings[1] # returned[1].result.warnings[1]
    /\ returned[3].result.warnings = <<>> /\ returned[3].result.success
    /\ Len(lists.heap[returned[1].warnings_ref]) = 2

-----------------------------------------------------------------------------
(* Properties of worksheet selection (SpecSheets) *)

\* the sheets whose name contains the keyword, letter case apart
Matching(names, keyword) ==
    {j \in 1..Len(names) : Contains(Lower(names[j]), Lower(keyword))}

\* the sheet the stated priority chooses
PrioritySheet(names, prest) ==
    LET keywords == IF prest \in DOMAIN sheet_patterns THEN sheet_patterns[prest]
                    ELSE <<>>
        hits == {i \in 1..Len(keywords) : Matching(names, keywords[i]) # {}}
        registre == {j \in 1..Len(names) : Lower(names[j]) = <<"registre">>}
    IN IF hits # {} THEN names[First(Matching(names, keywords[First(hits)]))]
       ELSE IF registre # {} THEN names[First(registre)]
       ELSE names[1]

\* C14: the run reads the sheet the stated priority chooses: the first sheet
\* matching the first keyword that matches any sheet when the provider has
\* keywords, otherwise a sheet named "registre" in any letter case, otherwise
\* the first sheet.
C14_SheetPriority ==
    Called =>
        /\ Len(rowlog) = 1
        /\ rowlog[1].row[HMatiere] =
               PrioritySheet(SheetNames(uploaded_files[1]), ui.process_args.prestataire)

-----------------------------------------------------------------------------
(* Properties of rows without a site (SpecNoSite) *)

\* the row call resolved its site to the sentinel, with its warning
SentinelCall(e) ==
    /\ e.appended = <<NoSiteWarning(e.site_name)>>
    /\ e.ret # NoRecord => SentinelRow(e.ret)

\* C15 as stated: a row whose site value is empty is, when the lookup is not
\* empty, emitted with the site of the lookup's first entry and without
\* warning; it gets the sentinel only when the lookup is empty.
C15_EmptyMatchesFirst ==
    Called =>
        \A i \in 1..Len(rowlog) :
            LET e == rowlog[i] IN
            e.site_name = <<>> =>
                IF RunSiteLookup # <<>>
                THEN e.ret # NoRecord /\ SiteMatched(e, RunSiteLookup[1][2])
                ELSE SentinelCall(e)

\* the entry an empty site value resolves to: the one under the empty key
\* when a blank provider-site cell made one, else the first in insertion order
EmptyEntry(lookup) ==
    LET blank == {i \in 1..Len(lookup) : lookup[i][1] = <<>>}
    IN IF blank # {} THEN lookup[First(blank)][2] ELSE lookup[1][2]

\* C15, amended: for a row whose site value is empty and a lookup that is
\* not empty, the site resolves to the entry under the empty key if there is
\* one and else to the first entry in insertion order, no warning is
\* appended, and the row, if it is emitted, carries that entry's site; the
\* sentinel and its warning are produced only when the lookup is empty.
C15_EmptySiteValue ==
    Called =>
        \A i \in 1..Len(rowlog) :
            LET e == rowlog[i] IN
            e.site_name = <<>> =>
                IF RunSiteLookup # <<>>
                THEN SiteMatched(e, EmptyEntry(RunSiteLookup))
                ELSE SentinelCall(e)

\* a row without site cell emitted with the site of the second entry, which
\* a blank cell put under the empty key, the first entry having another site
C15_Witness ==
    /\ Called /\ Len(rowlog) = 1 /\ Len(RunSiteLookup) = 2
    /\ RunSiteLookup[2][1] = <<>>
    /\ rowlog[1].site_name = <<>> /\ rowlog[1].appended = <<>>
    /\ rowlog[1].ret # NoRecord
    /\ rowlog[1].ret["Nom du site"] = RunSiteLookup[2][2].nom_site
    /\ RunSiteLookup[1][2].nom_site # RunSiteLookup[2][2].nom_site

====
